---- MODULE Spec2Model ----
(***************************************************************************)
(* SafeRoute client (src/App.tsx): the fetch lifecycle of getRoute, the    *)
(* React state it writes (result, loading, err), the text fields, the      *)
(* requests it sends and what the component renders from that state.       *)
(*                                                                         *)
(* JavaScript strings are sequences of chunks (TLA+ strings standing for   *)
(* one or more characters); JavaScript values are tagged records so that   *)
(* null, undefined, numbers, strings, arrays and objects stay distinct.    *)
(*                                                                         *)
(* One action is one run of JavaScript to completion: a handler, or the    *)
(* part of getRoute between two awaits, with every setter it calls.        *)
(***************************************************************************)
EXTENDS Integers, Sequences, FiniteSets, TLC

VARIABLES
    origin, dest,           \* the two text fields (useState, lines 32-33)
    result, loading, err,   \* the fetch state (useState, lines 34-36)
    calls,                  \* the calls of getRoute, in the order they were made
    sent,                   \* how many requests fetch() has sent
    submits,                \* how many times getRoute has been called
    latest,                 \* what the latest call left behind, once returned
    prev                    \* the last call that ran with no other call in flight

vars == <<origin, dest, result, loading, err, calls, sent, submits, latest, prev>>

\* ------------------------------------------------------------------ bounds

\* How many times getRoute is invoked in one behaviour.
MaxCalls == 2

\* ------------------------------------------------------- JavaScript values

Null == [t |-> "null"]
Undef == [t |-> "undef"]
NaN == [t |-> "nan"]
Bool(b) == [t |-> "bool", b |-> b]
Str(s) == [t |-> "str", s |-> s]
\* A decimal number: sign, integer part, fraction digits 0..9 (no trailing zero).
Num(neg, int, frac) == [t |-> "num", neg |-> neg, int |-> int, frac |-> frac]
IntNum(n) == Num(FALSE, n, <<>>)
Arr(items) == [t |-> "arr", items |-> items]
Obj(fields) == [t |-> "obj", fields |-> fields]
Field(k, v) == [k |-> k, v |-> v]
\* An Error object; message is a Str or Undef.
ErrorObj(message) == [t |-> "error", message |-> message]

LatLng(lat, lng) == Obj(<<Field(<<"latitude">>, lat), Field(<<"longitude">>, lng)>>)

\* JavaScript truthiness, as used by `x && ...`, `x || ...` and `cond ? a : b`.
Truthy(v) ==
    CASE v.t = "null" -> FALSE
      [] v.t = "undef" -> FALSE
      [] v.t = "nan" -> FALSE
      [] v.t = "bool" -> v.b
      [] v.t = "str" -> v.s # <<>>
      [] v.t = "num" -> v.int # 0 \/ v.frac # <<>>
      [] OTHER -> TRUE

\* Property read o.k: the last field named k of an object, undefined otherwise.
\* (Reading a property of null or undefined throws; callers test Nullish first.)
Nullish(v) == v.t \in {"null", "undef"}

Get(o, k) ==
    IF o.t # "obj" THEN Undef
    ELSE LET hits == {n \in 1..Len(o.fields) : o.fields[n].k = k}
         IN IF hits = {} THEN Undef
            ELSE o.fields[CHOOSE n \in hits : \A m \in hits : m <= n].v

\* Index read a[n] with a zero-based index, as in JavaScript.
At(a, n) ==
    CASE a.t = "arr" /\ n >= 0 /\ n < Len(a.items) -> a.items[n + 1]
      [] a.t = "str" /\ n >= 0 /\ n < Len(a.s) -> Str(<<a.s[n + 1]>>)
      [] OTHER -> Undef

\* a.length: a number for arrays and strings, undefined for other things.
LengthOf(a) ==
    CASE a.t = "arr" -> IntNum(Len(a.items))
      [] a.t = "str" -> IntNum(Len(a.s))
      [] OTHER -> Undef

\* ------------------------------------------------------------ JSON text
\* JSON text is a sequence of lexemes: the punctuation marks, single digits,
\* the words null/true/false, the quote mark, the backslash, and any other
\* chunk of characters (which can only occur inside a string literal).

DigitChars == <<"0", "1", "2", "3", "4", "5", "6", "7", "8", "9">>
IsDigit(c) == \E d \in 1..10 : DigitChars[d] = c
DigitVal(c) == (CHOOSE d \in 1..10 : DigitChars[d] = c) - 1
Quote == "\""
Backslash == "\\"

RECURSIVE DigitsOf(_)
DigitsOf(n) ==
    IF n < 10 THEN <<DigitChars[n + 1]>>
    ELSE Append(DigitsOf(n \div 10), DigitChars[(n % 10) + 1])

RECURSIVE CharsOfDigits(_)
CharsOfDigits(ds) ==
    IF ds = <<>> THEN <<>> ELSE <<DigitChars[Head(ds) + 1]>> \o CharsOfDigits(Tail(ds))

\* String(n) / template interpolation of a number.
NumberToString(v) ==
    (IF v.neg THEN <<"-">> ELSE <<>>) \o DigitsOf(v.int)
        \o (IF v.frac = <<>> THEN <<>> ELSE <<".">> \o CharsOfDigits(v.frac))

RECURSIVE EscapeChunks(_)
EscapeChunks(s) ==
    IF s = <<>> THEN <<>>
    ELSE (IF Head(s) \in {Quote, Backslash} THEN <<Backslash, Head(s)>> ELSE <<Head(s)>>)
            \o EscapeChunks(Tail(s))

RECURSIVE JSONStringify(_), StringifyItems(_), StringifyFields(_)
JSONStringify(v) ==
    CASE v.t = "null" -> <<"null">>
      [] v.t = "bool" -> IF v.b THEN <<"true">> ELSE <<"false">>
      [] v.t = "num" -> NumberToString(v)
      [] v.t = "str" -> <<Quote>> \o EscapeChunks(v.s) \o <<Quote>>
      [] v.t = "arr" -> <<"[">> \o StringifyItems(v.items) \o <<"]">>
      [] v.t = "obj" -> <<"{">> \o StringifyFields(v.fields) \o <<"}">>
      [] OTHER -> <<"null">>
StringifyItems(items) ==
    IF items = <<>> THEN <<>>
    ELSE JSONStringify(Head(items))
            \o (IF Tail(items) = <<>> THEN <<>> ELSE <<",">> \o StringifyItems(Tail(items)))
StringifyFields(fields) ==
    IF fields = <<>> THEN <<>>
    ELSE <<Quote>> \o EscapeChunks(Head(fields).k) \o <<Quote, ":">>
            \o JSONStringify(Head(fields).v)
            \o (IF Tail(fields) = <<>> THEN <<>> ELSE <<",">> \o StringifyFields(Tail(fields)))

\* A parse step: whether it succeeded, the value read, the next position.
ParseFail == [ok |-> FALSE, val |-> Undef, next |-> 0]
ParseOk(v, n) == [ok |-> TRUE, val |-> v, next |-> n]
Tok(toks, i) == IF i >= 1 /\ i <= Len(toks) THEN toks[i] ELSE "<eof>"

\* The first position at or after i that holds no digit.
DigitRunEnd(toks, i) ==
    CHOOSE e \in i..(Len(toks) + 1) :
        /\ \A j \in i..(e - 1) : IsDigit(toks[j])
        /\ ~IsDigit(Tok(toks, e))

RECURSIVE IntOf(_, _, _)
IntOf(toks, i, e) ==
    IF i >= e THEN 0 ELSE IntOf(toks, i, e - 1) * 10 + DigitVal(toks[e - 1])

RECURSIVE StripZeros(_)
StripZeros(ds) ==
    IF ds # <<>> /\ ds[Len(ds)] = 0 THEN StripZeros(SubSeq(ds, 1, Len(ds) - 1)) ELSE ds

ParseNumber(toks, i) ==
    LET neg == Tok(toks, i) = "-"
        a == IF neg THEN i + 1 ELSE i
        b == DigitRunEnd(toks, a)
        hasFrac == Tok(toks, b) = "."
        c == IF hasFrac THEN DigitRunEnd(toks, b + 1) ELSE b
        frac == [n \in 1..(c - b - 1) |-> DigitVal(toks[b + n])]
    IN  IF b = a \/ (b - a > 1 /\ toks[a] = "0") \/ (hasFrac /\ c = b + 1)
        THEN ParseFail
        ELSE ParseOk(Num(neg, IntOf(toks, a, b), IF hasFrac THEN StripZeros(frac) ELSE <<>>), c)

\* Reads a string literal's content from position i (after the opening quote).
RECURSIVE ParseString(_, _, _)
ParseString(toks, i, acc) ==
    IF i > Len(toks) THEN ParseFail
    ELSE IF toks[i] = Quote THEN ParseOk(Str(acc), i + 1)
    ELSE IF toks[i] = Backslash
         THEN IF Tok(toks, i + 1) \in {Quote, Backslash}
              THEN ParseString(toks, i + 2, Append(acc, toks[i + 1]))
              ELSE ParseFail
    ELSE ParseString(toks, i + 1, Append(acc, toks[i]))

RECURSIVE ParseValue(_, _), ParseItems(_, _, _), ParseFields(_, _, _)
ParseValue(toks, i) ==
    LET c == Tok(toks, i)
    IN  CASE c = "null" -> ParseOk(Null, i + 1)
          [] c = "true" -> ParseOk(Bool(TRUE), i + 1)
          [] c = "false" -> ParseOk(Bool(FALSE), i + 1)
          [] c = Quote -> ParseString(toks, i + 1, <<>>)
          [] c = "-" \/ IsDigit(c) -> ParseNumber(toks, i)
          [] c = "[" ->
                IF Tok(toks, i + 1) = "]" THEN ParseOk(Arr(<<>>), i + 2)
                ELSE ParseItems(toks, i + 1, <<>>)
          [] c = "{" ->
                IF Tok(toks, i + 1) = "}" THEN ParseOk(Obj(<<>>), i + 2)
                ELSE ParseFields(toks, i + 1, <<>>)
          [] OTHER -> ParseFail
ParseItems(toks, i, acc) ==
    LET r == ParseValue(toks, i)
    IN  IF ~r.ok THEN ParseFail
        ELSE IF Tok(toks, r.next) = "," THEN ParseItems(toks, r.next + 1, Append(acc, r.val))
        ELSE IF Tok(toks, r.next) = "]" THEN ParseOk(Arr(Append(acc, r.val)), r.next + 1)
        ELSE ParseFail
ParseFields(toks, i, acc) ==
    LET k == IF Tok(toks, i) = Quote THEN ParseString(toks, i + 1, <<>>) ELSE ParseFail
        r == IF k.ok /\ Tok(toks, k.next) = ":" THEN ParseValue(toks, k.next + 1) ELSE ParseFail
        fs == Append(acc, Field(k.val.s, r.val))
    IN  IF ~r.ok THEN ParseFail
        ELSE IF Tok(toks, r.next) = "," THEN ParseFields(toks, r.next + 1, fs)
        ELSE IF Tok(toks, r.next) = "}" THEN ParseOk(Obj(fs), r.next + 1)
        ELSE ParseFail

\* JSON.parse of a whole text: a value, or a failure (a SyntaxError).
JSONParse(toks) ==
    LET r == ParseValue(toks, 1)
    IN  IF r.ok /\ r.next = Len(toks) + 1 THEN r ELSE ParseFail

\* ----------------------------------------------------------- environment
\* What the user may type and what the backend and the network may answer.

S(c) == <<c>>

\* What the user may type: the initial text, nothing, and a text with a quote
\* and a backslash in it.
OriginTexts == {S("UC Irvine"), <<>>, <<"Peter", Quote, "s ", Backslash>>}
DestTexts == {S("Irvine Spectrum Center"), <<>>}

P1 == LatLng(Num(FALSE, 33, <<6, 4, 0, 5>>), Num(TRUE, 117, <<8, 4, 4, 3>>))
P2 == LatLng(Num(FALSE, 33, <<6, 5>>), Num(TRUE, 117, <<7, 4>>))
P3 == LatLng(Num(FALSE, 33, <<6, 6>>), Num(TRUE, 117, <<8>>))

RouteResultOf(sd, fd, score, sr, fr) ==
    Obj(<<Field(S("shortest_distance_m"), sd), Field(S("safest_distance_m"), fd),
          Field(S("safest_score"), score), Field(S("shortest_route"), sr),
          Field(S("safest_route"), fr)>>)

FullResult ==
    RouteResultOf(IntNum(5200), Num(FALSE, 5800, <<5>>), IntNum(87),
                  Arr(<<P1, P2>>), Arr(<<P1, P3, P2>>))
OtherResult ==
    RouteResultOf(IntNum(10), IntNum(12), IntNum(3), Arr(<<P3>>), Arr(<<P3>>))
EmptyShortest ==
    RouteResultOf(IntNum(0), IntNum(0), IntNum(0), Arr(<<>>), Arr(<<>>))
MissingFields == Obj(<<Field(S("detail"), Str(S("Not Found")))>>)

\* What a rejected fetch() may be rejected with.
TransportErrors ==
    {ErrorObj(Str(S("Network request failed"))), ErrorObj(Str(<<>>)), Undef}
\* What reading a body that breaks off (res.text(), res.json()) is rejected with.
ReadError == ErrorObj(Str(S("Failed to read body")))
\* What res.json() is rejected with when the body is no JSON text.
SyntaxError == ErrorObj(Str(S("JSON Parse error")))

\* A response: status line, body text, and whether the body can be read to
\* its end (bodyError is Null) or reading it fails with bodyError.
Response(status, statusText, body, bodyError) ==
    [status |-> status, statusText |-> statusText, body |-> body,
     bodyError |-> bodyError]

Responses ==
    { Response(200, S("OK"), JSONStringify(FullResult), Null),
      Response(299, <<>>, JSONStringify(OtherResult), Null),
      Response(200, S("OK"), JSONStringify(EmptyShortest), Null),
      Response(200, S("OK"), JSONStringify(MissingFields), Null),
      Response(200, S("OK"), SubSeq(JSONStringify(FullResult), 1, 20), Null),
      Response(200, S("OK"), <<"null">>, Null),
      Response(200, S("OK"), JSONStringify(FullResult), ReadError),
      Response(500, S("Internal Server Error"), S("internal error"), Null),
      Response(500, S("Internal Server Error"), S("internal error"), ReadError),
      Response(300, <<>>, JSONStringify(FullResult), Null),
      Response(199, <<>>, <<>>, Null) }

\* res.json(): the body parsed as JSON. The bodies the backend sends are
\* parsed once and looked up; any other text is parsed when asked for.
ResponseBodies == {r.body : r \in Responses}
ParsedBodies == [b \in ResponseBodies |-> JSONParse(b)]
ResJson(b) == IF b \in ResponseBodies THEN ParsedBodies[b] ELSE JSONParse(b)

\* ------------------------------------------------------------- getRoute

\* Faulty variant: a query that leaves out a field whose text is empty.
RouteQueryOmittingEmpty(o, d) ==
    Obj((IF o = <<>> THEN <<>> ELSE <<Field(S("origin"), Str(o))>>)
        \o (IF d = <<>> THEN <<>> ELSE <<Field(S("destination"), Str(d))>>)
        \o <<Field(S("alpha"), Num(FALSE, 1, <<5>>)), Field(S("beta"), Num(FALSE, 0, <<7>>)),
             Field(S("use_weather"), Bool(FALSE))>>)

RouteQuery(o, d) ==
    Obj(<<Field(S("origin"), Str(o)), Field(S("destination"), Str(d)),
          Field(S("alpha"), Num(FALSE, 1, <<5>>)), Field(S("beta"), Num(FALSE, 0, <<7>>)),
          Field(S("use_weather"), Bool(FALSE))>>)

Request(o, d) ==
    [method |-> "POST", path |-> "/route", contentType |-> "application/json",
     body |-> JSONStringify(RouteQuery(o, d))]

\* res.ok
ResOk(status) == status >= 200 /\ status <= 299

\* `${res.status} ${res.statusText} <en dash> ${txt}`; EnDash is the dash chunk.
EnDash == "--"
HttpErrorMessage(status, statusText, txt) ==
    DigitsOf(status) \o <<" ">> \o statusText \o <<" ", EnDash, " ">> \o txt

\* e?.message
MessageOf(e) == IF Nullish(e) \/ e.t # "error" THEN Undef ELSE e.message

\* Faulty variant: e.message with no fallback.
CatchMessageWithoutFallback(e) == MessageOf(e)

\* Faulty variant: the message also tells how many submissions were made.
CatchMessageCountingAttempts(e) ==
    Str((IF Truthy(MessageOf(e)) THEN MessageOf(e).s ELSE S("Network error"))
        \o <<" (attempt ">> \o DigitsOf(submits) \o <<")">>)

\* e?.message || "Network error"
CatchMessage(e) == IF Truthy(MessageOf(e)) THEN MessageOf(e) ELSE Str(S("Network error"))

InFlight == {i \in 1..Len(calls) : calls[i].pc # "done"}

NoRequest == [method |-> "", path |-> "", contentType |-> "", body |-> <<>>]

\* A call of getRoute suspended at fetch(): the request it sent, no response yet.
\* alone holds while no other call has been in flight together with it.
NewCall(req) ==
    [pc |-> "fetch", request |-> req, status |-> 0, statusText |-> <<>>,
     body |-> <<>>, bodyError |-> Null, applied |-> "none",
     alone |-> InFlight = {}]

\* A call of getRoute that has returned; applied names the setter it ended with.
DoneCall(applied) ==
    [pc |-> "done", request |-> NoRequest, status |-> 0, statusText |-> <<>>,
     body |-> <<>>, bodyError |-> Null, applied |-> applied, alone |-> FALSE]

\* The fetch state the latest call of getRoute left when it returned.
NoOutcome == [t |-> "none"]
Outcome(res, e) == [t |-> "outcome", result |-> res, err |-> e]

\* What a call was answered with: the value fetch() rejected with, or the
\* response it resolved with.
NotRejected == [t |-> "none"]
AnswerOf(c, e) ==
    IF c.pc = "fetch"
    THEN [rejected |-> e, status |-> 0, statusText |-> <<>>, body |-> <<>>,
          bodyError |-> Null]
    ELSE [rejected |-> NotRejected, status |-> c.status, statusText |-> c.statusText,
          body |-> c.body, bodyError |-> c.bodyError]

\* The last call that ran from getRoute's first line to its return with no
\* other call in flight: what it sent, what it was answered, what it left, and
\* whether the call before it sent and was answered the same (repeats).
NoCall == [t |-> "none"]
Remember(i, e, applied) ==
    IF calls[i].alone
    THEN [t |-> "call", request |-> calls[i].request,
          answer |-> AnswerOf(calls[i], e), applied |-> applied,
          result |-> result', err |-> err', loading |-> loading',
          repeats |-> /\ prev.t = "call"
                      /\ prev.request = calls[i].request
                      /\ prev.answer = AnswerOf(calls[i], e)]
    ELSE NoCall

Init ==
    /\ origin = S("UC Irvine")
    /\ dest = S("Irvine Spectrum Center")
    /\ result = Null
    /\ loading = FALSE
    /\ err = Null
    /\ calls = <<>>
    /\ sent = 0
    /\ submits = 0
    /\ latest = NoOutcome
    /\ prev = NoCall

\* onChangeText={setOrigin}, onChangeText={setDest}
\* Faulty variant: typing in the origin field also clears the error text.
SetOriginClearingErr(t) ==
    /\ origin' = t
    /\ err' = Null
    /\ UNCHANGED <<dest, result, loading, calls, sent, submits, latest, prev>>

SetOrigin(t) ==
    /\ origin' = t
    /\ UNCHANGED <<dest, result, loading, err, calls, sent, submits, latest, prev>>

\* Faulty variant: a request not yet answered follows the destination field.
SetDestRewritingRequests(t) ==
    /\ dest' = t
    /\ calls' = [i \in DOMAIN calls |->
                    IF calls[i].pc = "fetch"
                    THEN [calls[i] EXCEPT !.request = Request(origin, t)]
                    ELSE calls[i]]
    /\ UNCHANGED <<origin, result, loading, err, sent, submits, latest, prev>>

SetDest(t) ==
    /\ dest' = t
    /\ UNCHANGED <<origin, result, loading, err, calls, sent, submits, latest, prev>>

\* Faulty variant: getRoute without setResult(null) and setErr(null).
GetRouteKeepingStale ==
    /\ Len(calls) < MaxCalls
    /\ loading' = TRUE
    /\ calls' = Append([i \in DOMAIN calls |-> [calls[i] EXCEPT !.alone = FALSE]],
                       NewCall(Request(origin, dest)))
    /\ sent' = sent + 1
    /\ submits' = submits + 1
    /\ latest' = NoOutcome
    /\ UNCHANGED <<origin, dest, result, err, prev>>

\* getRoute up to its first await: the three setters, then fetch() is issued.
GetRoute ==
    /\ Len(calls) < MaxCalls
    /\ err' = Null
    /\ result' = Null
    /\ loading' = TRUE
    /\ calls' = Append([i \in DOMAIN calls |-> [calls[i] EXCEPT !.alone = FALSE]],
                       NewCall(Request(origin, dest)))
    /\ sent' = sent + 1
    /\ submits' = submits + 1
    /\ latest' = NoOutcome
    /\ UNCHANGED <<origin, dest, prev>>

\* Faulty variant: the button without disabled={loading}.
PressAlwaysEnabled == GetRoute

\* The button: onPress={getRoute} disabled={loading}
Press == ~loading /\ GetRoute

\* getRoute called whatever the button shows (the function has no guard).
Invoke == GetRoute

\* Faulty variant: loading ends when the response arrives, before its body
\* is read.
FetchResolveEndingLoading(i, r) ==
    /\ calls[i].pc = "fetch"
    /\ calls' = [calls EXCEPT ![i].pc = IF ResOk(r.status) THEN "json" ELSE "text",
                              ![i].status = r.status,
                              ![i].statusText = r.statusText,
                              ![i].body = r.body,
                              ![i].bodyError = r.bodyError]
    /\ loading' = FALSE
    /\ UNCHANGED <<origin, dest, result, err, sent, submits, latest, prev>>

\* fetch() resolves with a response; getRoute goes on to read the body.
FetchResolve(i, r) ==
    /\ calls[i].pc = "fetch"
    /\ calls' = [calls EXCEPT ![i].pc = IF ResOk(r.status) THEN "json" ELSE "text",
                              ![i].status = r.status,
                              ![i].statusText = r.statusText,
                              ![i].body = r.body,
                              ![i].bodyError = r.bodyError]
    /\ UNCHANGED <<origin, dest, result, loading, err, sent, submits, latest, prev>>

\* Call i returns: it is the latest call exactly when no call was made after it.
Return(i, applied) ==
    /\ calls' = [calls EXCEPT ![i] = DoneCall(applied)]
    /\ latest' = IF i = Len(calls) THEN Outcome(result', err') ELSE latest
    /\ UNCHANGED <<origin, dest, sent, submits>>

\* Faulty variant: a catch that sends the request again instead of giving up.
CatchAndRetry(i, e) ==
    /\ calls' = [calls EXCEPT ![i].pc = "fetch"]
    /\ sent' = sent + 1
    /\ UNCHANGED <<origin, dest, result, loading, err, submits, latest, prev>>

\* catch (e) { setErr(e?.message || "Network error") } finally { setLoading(false) }
Catch(i, e) ==
    /\ err' = CatchMessage(e)
    /\ loading' = FALSE
    /\ UNCHANGED result
    /\ prev' = Remember(i, e, "err")
    /\ Return(i, "err")

\* Faulty variant: a rejected fetch() that is not caught: only finally runs.
FetchRejectUncaught(i, e) ==
    /\ calls[i].pc = "fetch"
    /\ loading' = FALSE
    /\ UNCHANGED <<result, err>>
    /\ prev' = Remember(i, e, "none")
    /\ Return(i, "none")

\* fetch() rejects.
FetchReject(i, e) ==
    /\ calls[i].pc = "fetch"
    /\ Catch(i, e)

\* res.text() resolves: the Error with status, status text and body is thrown.
TextResolve(i) ==
    /\ calls[i].pc = "text"
    /\ calls[i].bodyError = Null
    /\ Catch(i, ErrorObj(Str(HttpErrorMessage(calls[i].status, calls[i].statusText,
                                              calls[i].body))))

\* Faulty variant: setLoading(false) as the last line of try, not in finally:
\* a body that cannot be read leaves loading as it is.
BodyRejectWithoutFinally(i) ==
    /\ calls[i].pc \in {"text", "json"}
    /\ calls[i].bodyError # Null
    /\ err' = CatchMessage(calls[i].bodyError)
    /\ UNCHANGED <<result, loading>>
    /\ prev' = Remember(i, calls[i].bodyError, "err")
    /\ Return(i, "err")

\* res.text() or res.json() rejects because the body cannot be read.
BodyReject(i) ==
    /\ calls[i].pc \in {"text", "json"}
    /\ calls[i].bodyError # Null
    /\ Catch(i, calls[i].bodyError)

\* Faulty variant: a body that is no JSON text is passed over in silence.
JsonRejectSwallowed(i) ==
    /\ calls[i].pc = "json"
    /\ calls[i].bodyError = Null
    /\ ~ResJson(calls[i].body).ok
    /\ loading' = FALSE
    /\ UNCHANGED <<result, err>>
    /\ prev' = Remember(i, NotRejected, "none")
    /\ Return(i, "none")

\* res.json() rejects because the body is no JSON text.
JsonReject(i) ==
    /\ calls[i].pc = "json"
    /\ calls[i].bodyError = Null
    /\ ~ResJson(calls[i].body).ok
    /\ Catch(i, SyntaxError)

\* Faulty variant: setResult that stores the routes in reverse order.
RECURSIVE Reverse(_)
Reverse(q) == IF q = <<>> THEN <<>> ELSE Append(Reverse(Tail(q)), Head(q))
ReverseRoutes(data) ==
    IF data.t # "obj" THEN data
    ELSE Obj([n \in 1..Len(data.fields) |->
                IF data.fields[n].v.t = "arr"
                THEN Field(data.fields[n].k, Arr(Reverse(data.fields[n].v.items)))
                ELSE data.fields[n]])
SuccessReversingRoutes(i, data) ==
    /\ result' = ReverseRoutes(data)
    /\ loading' = FALSE
    /\ UNCHANGED err
    /\ prev' = Remember(i, NotRejected, "result")
    /\ Return(i, "result")

\* setResult(data) ... finally { setLoading(false) }
Success(i, data) ==
    /\ result' = data
    /\ loading' = FALSE
    /\ UNCHANGED err
    /\ prev' = Remember(i, NotRejected, "result")
    /\ Return(i, "result")

\* res.json() resolves with the parsed body.
JsonResolve(i) ==
    /\ calls[i].pc = "json"
    /\ calls[i].bodyError = Null
    /\ ResJson(calls[i].body).ok
    /\ Success(i, ResJson(calls[i].body).val)

\* The continuations of the calls suspended at an await.
Settle ==
    \/ \E i \in 1..Len(calls), r \in Responses : FetchResolve(i, r)
    \/ \E i \in 1..Len(calls), e \in TransportErrors : FetchReject(i, e)
    \/ \E i \in 1..Len(calls) : TextResolve(i)
    \/ \E i \in 1..Len(calls) : BodyReject(i)
    \/ \E i \in 1..Len(calls) : JsonReject(i)
    \/ \E i \in 1..Len(calls) : JsonResolve(i)

Edit ==
    \/ \E t \in OriginTexts : SetOrigin(t)
    \/ \E t \in DestTexts : SetDest(t)

\* The application: getRoute runs only from the button.
Next == Press \/ Edit \/ Settle

Spec == Init /\ [][Next]_vars

\* getRoute as a function that may be called again while a call is in flight.
NextReentrant == Invoke \/ Edit \/ Settle

SpecReentrant == Init /\ [][NextReentrant]_vars

\* The application with a network that answers: a promise getRoute awaits
\* settles in the end, and the continuation then runs.
SpecFair == Spec /\ WF_vars(Settle)

\* ------------------------------------------------------------ what App renders

\* Math.round(x): halves round towards +Infinity; undefined gives NaN.
MathRound(v) ==
    CASE v.t = "num" ->
            LET up == /\ v.frac # <<>>
                      /\ IF v.neg THEN v.frac[1] > 5 \/ (v.frac[1] = 5 /\ Len(v.frac) > 1)
                                  ELSE v.frac[1] >= 5
                n == v.int + (IF up THEN 1 ELSE 0)
            IN  Num(v.neg /\ n # 0, n, <<>>)
      [] v.t = "null" -> IntNum(0)
      [] v.t = "bool" -> IntNum(IF v.b THEN 1 ELSE 0)
      [] OTHER -> NaN

\* A render that throws (a property read of undefined or null).
Throw == [t |-> "throw"]

DefaultCenter == LatLng(Num(FALSE, 33, <<6, 4>>), Num(TRUE, 117, <<8, 4>>))
Delta == Num(FALSE, 0, <<0, 5>>)

\* Faulty variant: the region is centred on the last coordinate.
initialRegionForLast(coords) ==
    LET center == IF Truthy(coords) /\ Truthy(LengthOf(coords))
                  THEN At(coords, LengthOf(coords).int - 1)
                  ELSE DefaultCenter
    IN  IF Nullish(center) THEN Throw
        ELSE Obj(<<Field(S("latitude"), Get(center, S("latitude"))),
                   Field(S("longitude"), Get(center, S("longitude"))),
                   Field(S("latitudeDelta"), Delta),
                   Field(S("longitudeDelta"), Delta)>>)

initialRegionFor(coords) ==
    LET center == IF Truthy(coords) /\ Truthy(LengthOf(coords)) THEN At(coords, 0)
                  ELSE DefaultCenter
    IN  IF Nullish(center) THEN Throw
        ELSE Obj(<<Field(S("latitude"), Get(center, S("latitude"))),
                   Field(S("longitude"), Get(center, S("longitude"))),
                   Field(S("latitudeDelta"), Delta),
                   Field(S("longitudeDelta"), Delta)>>)

\* <Button title=... disabled={loading} />
ButtonDisabled == loading
ButtonTitle == IF loading THEN "Finding route..." ELSE "Get Route"

\* {loading && <ActivityIndicator ... />}
ShowsSpinner == loading

\* {err && <Text>{err}</Text>}: the text shown, Null when nothing is shown.
ErrorText == IF Truthy(err) THEN err ELSE Null

\* {result && ( ...card and map... )}
ShowsResult == Truthy(result)

Card(res) ==
    [shortest |-> MathRound(Get(res, S("shortest_distance_m"))),
     safest |-> MathRound(Get(res, S("safest_distance_m"))),
     score |-> MathRound(Get(res, S("safest_score")))]

\* Faulty variant: each line is drawn along the other route.
PolylinesSwapped(res) ==
    <<[coordinates |-> Get(res, S("safest_route")), strokeColor |-> "blue",
       strokeWidth |-> 6, dashed |-> FALSE],
      [coordinates |-> Get(res, S("shortest_route")), strokeColor |-> "green",
       strokeWidth |-> 2, dashed |-> TRUE]>>

Polylines(res) ==
    <<[coordinates |-> Get(res, S("shortest_route")), strokeColor |-> "blue",
       strokeWidth |-> 6, dashed |-> FALSE],
      [coordinates |-> Get(res, S("safest_route")), strokeColor |-> "green",
       strokeWidth |-> 2, dashed |-> TRUE]>>

\* a.length - 1 as an index; NaN (no length) reads undefined, like index -1.
LastIndex(a) == IF LengthOf(a).t = "num" THEN LengthOf(a).int - 1 ELSE -1

Markers(res) ==
    <<[title |-> "Origin", coordinate |-> At(Get(res, S("shortest_route")), 0)],
      [title |-> "Destination",
       coordinate |-> At(Get(res, S("shortest_route")),
                         LastIndex(Get(res, S("shortest_route"))))]>>

\* <MapView initialRegion={initialRegionFor(result.shortest_route)}>; Null
\* when no map is shown.
MapRegion ==
    IF ShowsResult THEN initialRegionFor(Get(result, S("shortest_route"))) ELSE Null

\* The polylines on the map; none when no result is shown.
MapPolylines == IF ShowsResult THEN Polylines(result) ELSE <<>>

\* The markers on the map; none when no result is shown.
MapMarkers == IF ShowsResult THEN Markers(result) ELSE <<>>

\* Rendering res throws: result.shortest_route[0] with no shortest_route, or
\* center.latitude with no first coordinate.
RenderThrows(res) ==
    /\ Truthy(res)
    /\ \/ Nullish(Get(res, S("shortest_route")))
       \/ initialRegionFor(Get(res, S("shortest_route"))) = Throw

\* ------------------------------------------------------------------ claims

Calls == 1..Len(calls)

\* Call i returns in this step.
Returns(i) == calls[i].pc # "done" /\ calls'[i].pc = "done"

\* s holds sub as a run of consecutive chunks.
Contains(s, sub) ==
    \E k \in 0..(Len(s) - Len(sub)) : SubSeq(s, k + 1, k + Len(sub)) = sub

RequiredFields ==
    {S("shortest_distance_m"), S("safest_distance_m"), S("safest_score"),
     S("shortest_route"), S("safest_route")}

HasRequiredFields(v) == v.t = "obj" /\ \A k \in RequiredFields : Get(v, k) # Undef

\* C1: last-submission-wins. Once the call of getRoute made last has returned,
\* the fetch state (result, err, loading) is the one that call left, whatever
\* a call made earlier does when it returns after it.
LastSubmissionWins ==
    latest.t = "outcome" =>
        (result = latest.result /\ err = latest.err /\ loading = FALSE)

\* C2: in every state, overlapping calls included, (loading, result, err) is
\* one of Idle (false, null, null), Loading (true, null, null), Success
\* (false, result, null) and Failure (false, null, message).
ExactlyOneVariant ==
    \/ (~loading /\ result = Null /\ err = Null)
    \/ (loading /\ result = Null /\ err = Null)
    \/ (~loading /\ result # Null /\ err = Null)
    \/ (~loading /\ result = Null /\ err # Null)

\* C3: with the button enabled only while loading is false, at most one call
\* of getRoute awaits a response at any time.
AtMostOneInFlight == Cardinality(InFlight) <= 1

\* C3 witness: a second submission is in flight after the first has returned.
SecondCallInFlight == Cardinality(InFlight) = 1 /\ submits = 2 /\ calls[1].pc = "done"

\* C4: whenever loading is true, result and err are null; and right after any
\* call of getRoute loading is true and result and err are null.
LoadingClearsStale ==
    /\ [](loading => (result = Null /\ err = Null))
    /\ [][submits' # submits => (loading' /\ result' = Null /\ err' = Null)]_vars

\* C4 witness: loading again after a call that ended with an error shown.
LoadingAfterFailure ==
    loading /\ Len(calls) = 2 /\ calls[1].applied = "err" /\ calls[2].pc = "fetch"

\* C5: a call that got a response with a status outside 200-299 ends in
\* Failure (loading false, result null, err a message), and the message holds
\* the status code, the status text and the raw body.
NonOkEndsInFailureWithStatus ==
    [][\A i \in Calls :
          (calls[i].pc = "text" /\ Returns(i)) =>
              /\ loading' = FALSE
              /\ result' = Null
              /\ err'.t = "str"
              /\ Contains(err'.s, DigitsOf(calls[i].status))
              /\ Contains(err'.s, calls[i].statusText)
              /\ Contains(err'.s, calls[i].body)]_vars

\* C6: a call whose 2xx response body is no JSON text, or lacks a required
\* RouteResult field, ends in Failure (err set, result null, loading false),
\* and what is then rendered does not throw.
BadBodyEndsInFailure ==
    [][\A i \in Calls :
          (/\ calls[i].pc = "json"
           /\ Returns(i)
           /\ \/ ~JSONParse(calls[i].body).ok
              \/ ~HasRequiredFields(JSONParse(calls[i].body).val)) =>
              /\ loading' = FALSE
              /\ result' = Null
              /\ err' # Null
              /\ ~RenderThrows(result')]_vars

\* C7: a call (the button's, so not overlapped) whose 2xx response body is
\* read and parses to a value with the five RouteResult fields ends in Success:
\* loading false, err null, and result equal to the parsed value, field by
\* field and route element by route element.
SuccessStoresParsedVerbatim ==
    [][\A i \in Calls :
          (/\ calls[i].pc = "json"
           /\ Returns(i)
           /\ calls[i].bodyError = Null
           /\ JSONParse(calls[i].body).ok
           /\ HasRequiredFields(JSONParse(calls[i].body).val)) =>
              /\ loading' = FALSE
              /\ err' = Null
              /\ calls'[i].applied = "result"
              /\ result' = JSONParse(calls[i].body).val
              /\ \A k \in RequiredFields :
                    Get(result', k) = Get(JSONParse(calls[i].body).val, k)]_vars

\* C7 witness: the full two-route response is on display as a Success.
FullResultStored == ~loading /\ err = Null /\ result = FullResult

\* The messages a rejected fetch() ends with: the rejection's own, or the fallback.
TransportMessages == {Str(S("Network request failed")), Str(S("Network error"))}

\* C8: a call whose fetch() rejects ends in Failure with a transport-level
\* message and loading false, and sets no result.
RejectedFetchEndsInFailure ==
    [][\A i \in Calls :
          (calls[i].pc = "fetch" /\ Returns(i)) =>
              /\ loading' = FALSE
              /\ result' = Null
              /\ err' \in TransportMessages
              /\ calls'[i].applied = "err"]_vars

\* C8 witness: the failure left by a rejected fetch().
TransportFailureShown ==
    ~loading /\ result = Null /\ err = Str(S("Network request failed")) /\ InFlight = {}

\* C9: each call of getRoute sends exactly one request and nothing else sends
\* one: the number of requests sent equals the number of submissions in every
\* state, so after a Failure it stays put until the next submission.
OneRequestPerSubmission == sent = submits

\* C9 witness: a Failure at rest, one request sent for the one submission.
FailureAtRest == ~loading /\ err # Null /\ InFlight = {} /\ submits = 1 /\ sent = 1

\* C10: a result whose shortest_route is empty is not presented as a Success:
\* an error is shown instead and no marker is derived from a missing coordinate.
EmptyRouteShownAsFailure ==
    (result.t = "obj" /\ Get(result, S("shortest_route")) = Arr(<<>>)) =>
        /\ ~ShowsResult
        /\ ErrorText # Null
        /\ \A n \in 1..Len(MapMarkers) : MapMarkers[n].coordinate # Undef

\* The body of a request as the backend reads it: the parsed JSON text.
SentQuery(req) == JSONParse(req.body)

QueryKeys ==
    <<S("origin"), S("destination"), S("alpha"), S("beta"), S("use_weather")>>

\* C11: the request a submission sends has a body that parses to an object with
\* exactly the five keys origin, destination, alpha, beta, use_weather, where
\* origin and destination are the texts of the two fields at the submission
\* (empty texts included), alpha is 1.5, beta is 0.7 and use_weather is false.
SubmissionSendsTheQuery ==
    [][submits' # submits =>
        LET req == calls'[Len(calls')].request
            q == SentQuery(req)
        IN  /\ req.method = "POST" /\ req.path = "/route"
            /\ q.ok
            /\ q.val.t = "obj"
            /\ [n \in 1..Len(q.val.fields) |-> q.val.fields[n].k] = QueryKeys
            /\ Get(q.val, S("origin")) = Str(origin)
            /\ Get(q.val, S("destination")) = Str(dest)
            /\ NumberToString(Get(q.val, S("alpha"))) = <<"1", ".", "5">>
            /\ NumberToString(Get(q.val, S("beta"))) = <<"0", ".", "7">>
            /\ Get(q.val, S("use_weather")) = Bool(FALSE)]_vars

\* A request is on its way that was sent with a quote and a backslash in the
\* origin and with an empty destination.
QuotedAndEmptyQuerySent ==
    \E i \in Calls :
        /\ calls[i].pc = "fetch"
        /\ Get(SentQuery(calls[i].request).val, S("origin"))
                = Str(<<"Peter", Quote, "s ", Backslash>>)
        /\ Get(SentQuery(calls[i].request).val, S("destination")) = Str(<<>>)

\* The text of the origin or destination field changes in this step.
Edits == origin' # origin \/ dest' # dest

\* The fetch state (loading, result, err) changes in this step.
FetchStateChanges == loading' # loading \/ result' # result \/ err' # err

\* C12: the fetch state changes only in a submission or when a call in flight
\* returns. An edit of the origin or destination text leaves loading, result
\* and err as they are, and with no call in flight only a submission changes
\* them.
FetchStateFrame ==
    [][/\ Edits => ~FetchStateChanges
       /\ FetchStateChanges => (submits' # submits \/ \E i \in Calls : Returns(i))
       /\ (InFlight = {} /\ FetchStateChanges) => submits' # submits]_vars

\* The origin field was edited after the submission whose response is being
\* read, and the fetch state is still the one the submission set.
EditedWhileLoading ==
    /\ loading /\ result = Null /\ err = Null
    /\ \E i \in Calls :
        /\ calls[i].pc \in {"text", "json"}
        /\ Get(SentQuery(calls[i].request).val, S("origin")) # Str(origin)

\* C13: a query is fixed once sent. An edit of the origin or destination field
\* changes no call: not the request a call in flight has sent, not the
\* response it holds. A request stays what it was for as long as its call is
\* in flight, a result stored is the body of the call that returns, and only a
\* submission made after the edit sends the edited texts.
SentQueryImmutable ==
    [][/\ Edits => calls' = calls
       /\ \A i \in Calls :
            /\ (calls[i].pc # "done" /\ calls'[i].pc # "done")
                    => calls'[i].request = calls[i].request
            /\ (Returns(i) /\ calls'[i].applied = "result")
                    => result' = JSONParse(calls[i].body).val
       /\ submits' # submits =>
            LET q == SentQuery(calls'[Len(calls')].request).val
            IN  Get(q, S("origin")) = Str(origin) /\ Get(q, S("destination")) = Str(dest)]_vars

\* A call is in flight whose request holds texts that the two fields no longer
\* hold: both were edited after the submission.
EditedWhileInFlight ==
    \E i \in Calls :
        /\ calls[i].pc = "fetch"
        /\ Get(SentQuery(calls[i].request).val, S("origin")) # Str(origin)
        /\ Get(SentQuery(calls[i].request).val, S("destination")) # Str(dest)

\* C14: the region of the map is centred on the first coordinate of the route
\* it is given when the route has one, and on (33.64, -117.84) when the route
\* is empty or undefined; both deltas are 0.05 in every case.
RegionCentredOnFirst ==
    ShowsResult =>
        LET coords == Get(result, S("shortest_route"))
            nonEmpty == coords.t = "arr" /\ coords.items # <<>>
        IN  /\ coords.t \in {"arr", "undef"}
            /\ MapRegion.t = "obj"
            /\ [n \in 1..Len(MapRegion.fields) |-> MapRegion.fields[n].k]
                    = <<S("latitude"), S("longitude"), S("latitudeDelta"),
                        S("longitudeDelta")>>
            /\ nonEmpty =>
                    /\ Get(MapRegion, S("latitude")) = Get(coords.items[1], S("latitude"))
                    /\ Get(MapRegion, S("longitude")) = Get(coords.items[1], S("longitude"))
            /\ ~nonEmpty =>
                    /\ NumberToString(Get(MapRegion, S("latitude")))
                            = <<"3", "3", ".", "6", "4">>
                    /\ NumberToString(Get(MapRegion, S("longitude")))
                            = <<"-", "1", "1", "7", ".", "8", "4">>
            /\ NumberToString(Get(MapRegion, S("latitudeDelta"))) = <<"0", ".", "0", "5">>
            /\ NumberToString(Get(MapRegion, S("longitudeDelta"))) = <<"0", ".", "0", "5">>

\* The map is framed for a route of no coordinates, on the default centre.
FramedOnDefaultCentre ==
    /\ ShowsResult
    /\ Get(result, S("shortest_route")) = Arr(<<>>)
    /\ Get(MapRegion, S("latitude")) = Get(DefaultCenter, S("latitude"))

\* C15: for a stored result whose shortest_route is not empty the map holds
\* exactly two polylines, the first along shortest_route and the second along
\* safest_route, each with the coordinates of the stored route in their order,
\* and exactly two markers, "Origin" at the first coordinate of shortest_route
\* and "Destination" at its last. With no result the map holds no polyline and
\* no marker.
PresenterDrawsRoutes ==
    /\ result = Null => (MapPolylines = <<>> /\ MapMarkers = <<>>)
    /\ LET shortest == Get(result, S("shortest_route"))
       IN  (shortest.t = "arr" /\ shortest.items # <<>>) =>
            /\ Len(MapPolylines) = 2
            /\ MapPolylines[1].coordinates = shortest
            /\ MapPolylines[2].coordinates = Get(result, S("safest_route"))
            /\ Len(MapMarkers) = 2
            /\ MapMarkers[1].title = "Origin"
            /\ MapMarkers[1].coordinate = shortest.items[1]
            /\ MapMarkers[2].title = "Destination"
            /\ MapMarkers[2].coordinate = shortest.items[Len(shortest.items)]

\* A result is drawn whose two routes differ: two coordinates on the shortest
\* route, three on the safest, and the markers on P1 and P2.
TwoRoutesDrawn ==
    /\ ~loading
    /\ result = FullResult
    /\ Len(MapPolylines) = 2
    /\ Len(MapPolylines[1].coordinates.items) = 2
    /\ Len(MapPolylines[2].coordinates.items) = 3
    /\ MapMarkers[1].coordinate = P1
    /\ MapMarkers[2].coordinate = P2

\* C16: idempotence. When a query is submitted twice, the second time after the
\* first call has returned, and the backend answers both requests the same
\* (the same response, or the same rejection), the second call ends in the
\* same outcome class and leaves the same result, err and loading as the
\* first did.
SameQuerySameOutcome ==
    [][\A i \in Calls :
        (Returns(i) /\ prev.t = "call" /\ prev'.t = "call" /\ prev'.repeats) =>
            /\ prev'.applied = prev.applied
            /\ calls'[i].applied = prev.applied
            /\ result' = prev.result
            /\ err' = prev.err
            /\ loading' = prev.loading]_vars

\* A query was submitted twice in sequence and answered the same both times
\* with a response that ends in Failure.
SameFailureTwice ==
    /\ submits = 2 /\ InFlight = {}
    /\ prev.t = "call"
    /\ prev.repeats
    /\ prev.applied = "err"
    /\ prev.answer.status = 500

\* C17: every call of getRoute ends with exactly one of setResult and setErr:
\* a call in flight has applied neither, a call that has returned has applied
\* one of them, and the step in which a call returns runs one setter and
\* leaves the other part of the state as the entry into Loading set it; the
\* call returns from Loading, so after its own entry.
ExactlyOneOutcome ==
    /\ [](\A i \in Calls :
            /\ i <= submits
            /\ calls[i].pc # "done" => calls[i].applied = "none"
            /\ calls[i].pc = "done" => calls[i].applied \in {"result", "err"})
    /\ [][\A i \in Calls : Returns(i) =>
            /\ loading /\ result = Null /\ err = Null
            /\ \/ calls'[i].applied = "result" /\ err' = Null
               \/ calls'[i].applied = "err" /\ result' = Null /\ err' # Null]_vars

\* Two calls have returned, the first with setResult and the second with setErr.
ResultThenErrApplied ==
    /\ Len(calls) = 2
    /\ calls[1].pc = "done" /\ calls[1].applied = "result"
    /\ calls[2].pc = "done" /\ calls[2].applied = "err"

\* C18: loading is true exactly when a call of getRoute is in flight.
LoadingTracksInFlight == loading <=> InFlight # {}

\* The second call is reading its response body and loading is true.
LoadingWhileBodyIsRead ==
    /\ loading
    /\ Len(calls) = 2
    /\ calls[1].pc = "done"
    /\ calls[2].pc \in {"text", "json"}

\* C19: loading always ends. With a network that answers, whenever loading is
\* true it is later false and the button is enabled again.
LoadingEnds == loading ~> (~loading /\ ~ButtonDisabled)

\* Every call has returned, the last after a body that could not be read, and
\* the button is enabled.
EnabledAfterReadFailure ==
    /\ submits = 2 /\ InFlight = {}
    /\ ~ButtonDisabled
    /\ prev.t = "call"
    /\ prev.answer.bodyError = ReadError

\* C20: err is never the empty string: it is null or a string that is not
\* empty. When the last call has ended with setErr and no call is in flight,
\* err is a non-empty string and the view shows it.
FailureAlwaysVisible ==
    /\ err = Null \/ (err.t = "str" /\ err.s # <<>>)
    /\ (calls # <<>> /\ InFlight = {} /\ calls[Len(calls)].applied = "err") =>
            (err.t = "str" /\ err.s # <<>> /\ ErrorText = err)

\* A fetch() rejected with no message has ended with the fallback text.
FallbackTextShown ==
    /\ ~loading
    /\ prev.t = "call"
    /\ ~Truthy(MessageOf(prev.answer.rejected))
    /\ prev.answer.rejected # NotRejected
    /\ ErrorText = Str(S("Network error"))

====
